---- MODULE Spec2Model ----
(***************************************************************************)
(* Flask-Themer (src/flask_themer.py): theme registry, active-theme        *)
(* resolution with the explicit override stack, sentinel path rewriting,   *)
(* the intercepting template loader and themed rendering with fallback.    *)
(*                                                                         *)
(* Strings are sequences of one-character strings, so that startswith,     *)
(* slicing and split('/', 1) are computed as Python computes them.         *)
(***************************************************************************)
EXTENDS Integers, Sequences, FiniteSets, TLC

VARIABLES
    attached,     \* EXTENSION_KEY in current_app.extensions
    loaders,      \* Themer.loaders
    themes,       \* Themer.themes: theme name -> Theme
    resolver,     \* Themer._theme_resolver
    stack,        \* Themer._explicit_theme_stack
    owner,        \* ghost: for each stack entry, the request that appended it
    scopes,       \* per request: the use_theme scopes it has open, outermost first
    last          \* the operation performed by the latest step, with its outcome

vars == <<attached, loaders, themes, resolver, stack, owner, scopes, last>>

(***************************************************************************)
(* Bounds of the model.                                                    *)
(***************************************************************************)
\* Largest number of use_theme scopes open at once, over all requests.
MaxOpen == 2

(***************************************************************************)
(* Strings.                                                                *)
(***************************************************************************)
\* The snowman U+2603, one character long.
MAGIC_PATH_PREFIX == <<"S">>

SEP == "/"

\* str.startswith
StartsWith(s, p) == Len(s) >= Len(p) /\ SubSeq(s, 1, Len(p)) = p

\* s[n:]
SliceFrom(s, n) == SubSeq(s, n + 1, Len(s))

\* Index of the first '/' of s, 0 when there is none.
FirstSep(s) ==
    IF \E i \in 1..Len(s) : s[i] = SEP
    THEN CHOOSE i \in 1..Len(s) : s[i] = SEP /\ \A j \in 1..(i - 1) : s[j] # SEP
    ELSE 0

\* The split as it would be with rsplit('/', 1): at the last '/'.
Split1_last(s) ==
    IF \A i \in 1..Len(s) : s[i] # SEP
    THEN <<s>>
    ELSE LET k == CHOOSE i \in 1..Len(s) :
                    s[i] = SEP /\ \A j \in (i + 1)..Len(s) : s[j] # SEP
         IN  <<SubSeq(s, 1, k - 1), SubSeq(s, k + 1, Len(s))>>

\* s.split('/', 1): a list of one part when s holds no '/', of two otherwise.
Split1(s) ==
    IF FirstSep(s) = 0
    THEN <<s>>
    ELSE <<SubSeq(s, 1, FirstSep(s) - 1), SliceFrom(s, FirstSep(s))>>

Last(s) == s[Len(s)]

Front(s) == SubSeq(s, 1, Len(s) - 1)

(***************************************************************************)
(* The world the extension runs in: the directories theme loaders scan,    *)
(* the templates found in each theme directory and in the application's    *)
(* own template folder.  No stored template path holds the magic prefix:   *)
(* its presence is what marks a lookup as themed (lines 17-20).            *)
(***************************************************************************)
None == "None"

\* Directory entries: <<name, is_dir>>.
DirEntries(dir) ==
    CASE dir = "themes" -> {[name |-> <<"a">>, is_dir |-> TRUE],
                            [name |-> <<"r">>, is_dir |-> FALSE]}
      [] dir = "data"   -> {[name |-> <<"a">>, is_dir |-> TRUE],
                            [name |-> <<"b">>, is_dir |-> TRUE],
                            [name |-> <<"_", "c">>, is_dir |-> TRUE],
                            [name |-> <<"n">>, is_dir |-> FALSE]}
      [] dir = "more"   -> {[name |-> <<"b">>, is_dir |-> TRUE]}
      [] OTHER          -> {}

\* Path.exists()
DirExists(dir) == dir \in {"themes", "data", "more"}

\* The templates stored under <root>/<name> and what rendering each one does:
\* "ok" renders, "extends_missing" extends a template that exists nowhere,
\* "raises" fails while rendering with an error that is no TemplateNotFound.
ThemeFiles(root, name) ==
    CASE root = "data" /\ name = <<"a">> ->
            {[path |-> <<"t">>, body |-> "ok"],
             [path |-> <<"b", "/", "f">>, body |-> "ok"],
             [path |-> <<"k">>, body |-> "extends_missing"],
             [path |-> <<"e">>, body |-> "raises"]}
      [] root = "data" /\ name = <<"b">> ->
            {[path |-> <<"t">>, body |-> "ok"]}
      [] root = "data" /\ name = <<"_", "c">> ->
            {[path |-> <<"t">>, body |-> "ok"]}
      [] root = "more" /\ name = <<"b">> ->
            {[path |-> <<"t">>, body |-> "ok"],
             [path |-> <<"k">>, body |-> "ok"]}
      [] root = "themes" /\ name = <<"a">> ->
            {[path |-> <<"t">>, body |-> "ok"]}
      [] OTHER -> {}

\* The static assets stored under <root>/<name>/static.
StaticFiles(root, name) ==
    CASE root = "data" /\ name = <<"a">>   -> {<<"s">>, <<"d", "/", "s">>}
      [] root = "data" /\ name = <<"b">>   -> {<<"s">>}
      [] root = "more" /\ name = <<"b">>   -> {<<"y">>}
      [] root = "themes" /\ name = <<"a">> -> {<<"s">>}
      [] OTHER -> {}

\* The application's template folder (the default, non-themed source).
DefaultFiles ==
    {[path |-> <<"f">>, body |-> "ok"],
     [path |-> <<"g">>, body |-> "raises"]}

\* app.config THEMER_DEFAULT_DIRECTORY, as set by setdefault.
DefaultDirectory == "themes"

(***************************************************************************)
(* Theme loaders and the registry.                                         *)
(***************************************************************************)
\* FileSystemThemeLoader(path, filter)
FileSystemThemeLoader(path, filter) == [path |-> path, filter |-> filter]

\* A filter applied with its sense inverted.
ApplyFilter_inverted(filter, name) ==
    IF filter = "no_underscore" THEN StartsWith(name, <<"_">>) ELSE TRUE

\* The filter callables used: none, or lambda path: not path.name.startswith('_')
ApplyFilter(filter, name) ==
    IF filter = "no_underscore" THEN ~StartsWith(name, <<"_">>) ELSE TRUE

\* Theme(jinja_loader=FileSystemLoader(str(child)), theme_loader=self, name=child.name)
Theme(loader, name) ==
    [theme_loader |-> loader,
     jinja_loader |-> [root |-> loader.path, dir |-> name],
     name |-> name]

\* self.path.iterdir(): the entries of a directory, each once, in some order.
RECURSIVE Listing(_)
Listing(entries) ==
    IF entries = {} THEN <<>>
    ELSE LET c == CHOOSE e \in entries : TRUE
         IN  <<c>> \o Listing(entries \ {c})

\* The body of the loop of FileSystemThemeLoader.themes over the children.
RECURSIVE YieldThemes(_, _)
YieldThemes(loader, children) ==
    IF children = <<>> THEN <<>>
    ELSE IF ~Head(children).is_dir
    THEN YieldThemes(loader, Tail(children))
    ELSE IF loader.filter # None /\ ~ApplyFilter(loader.filter, Head(children).name)
    THEN YieldThemes(loader, Tail(children))
    ELSE <<Theme(loader, Head(children).name)>> \o YieldThemes(loader, Tail(children))

\* FileSystemThemeLoader.themes: the Themes the generator yields, in order.
FileSystemThemeLoader_themes(loader) ==
    IF DirExists(loader.path)
    THEN YieldThemes(loader, Listing(DirEntries(loader.path)))
    ELSE <<>>

\* The Themes `for theme in loader.themes` goes through.
LoaderThemes(loader) ==
    {FileSystemThemeLoader_themes(loader)[i] :
        i \in 1..Len(FileSystemThemeLoader_themes(loader))}

EmptyThemes == [n \in {} |-> n]

\* Registration as it would be if a name already registered were kept.
RegisterLoader_keep_first(reg, loader) ==
    [n \in (DOMAIN reg) \cup {t.name : t \in LoaderThemes(loader)} |->
        IF n \in DOMAIN reg
        THEN reg[n]
        ELSE CHOOSE t \in LoaderThemes(loader) : t.name = n]

\* for theme in loader.themes: self.themes[theme.name] = theme
RegisterLoader(reg, loader) ==
    [n \in (DOMAIN reg) \cup {t.name : t \in LoaderThemes(loader)} |->
        IF \E t \in LoaderThemes(loader) : t.name = n
        THEN CHOOSE t \in LoaderThemes(loader) : t.name = n
        ELSE reg[n]]

\* for loader in self.loaders: ...
RECURSIVE RegisterAll(_, _)
RegisterAll(reg, ls) ==
    IF ls = <<>> THEN reg
    ELSE RegisterAll(RegisterLoader(reg, Head(ls)), Tail(ls))

\* The loaders argument of Themer(app, loaders=...) and init_app(app, loaders=...):
\* left out (None) or a list.
NoLoaders == [supplied |-> FALSE, list |-> <<>>]

LoaderList(ls) == [supplied |-> TRUE, list |-> ls]

\* loaders or [FileSystemThemeLoader(Path(app.root_path) / default_dir)]
\* (None and the empty list are both falsy)
EffectiveLoaders(arg) ==
    IF ~arg.supplied \/ arg.list = <<>>
    THEN <<FileSystemThemeLoader(DefaultDirectory, None)>>
    ELSE arg.list

(***************************************************************************)
(* The active theme.                                                       *)
(***************************************************************************)
\* What can be registered with current_theme_loader: a callable returning a
\* theme name, or one that raises.  NoResolver is the initial None.
NoResolver == [kind |-> "none"]

Returns(name) == [kind |-> "returns", value |-> name]

Raises(error) == [kind |-> "raises", error |-> error]

\* current_theme as it would be if the resolver were asked before the stack.
current_theme_resolver_first(stk, res) ==
    IF res.kind = "returns"
    THEN [kind |-> "ok", value |-> res.value, resolver_called |-> TRUE]
    ELSE IF res.kind = "raises"
    THEN [kind |-> res.error, value |-> <<>>, resolver_called |-> TRUE]
    ELSE IF stk # <<>>
    THEN [kind |-> "ok", value |-> Last(stk), resolver_called |-> FALSE]
    ELSE [kind |-> "NoThemeResolver", value |-> <<>>, resolver_called |-> FALSE]

\* current_theme as it would be without the check for a missing resolver:
\* calling None raises TypeError.
current_theme_unchecked(stk, res) ==
    IF stk # <<>>
    THEN [kind |-> "ok", value |-> Last(stk), resolver_called |-> FALSE]
    ELSE IF res.kind = "none"
    THEN [kind |-> "TypeError", value |-> <<>>, resolver_called |-> TRUE]
    ELSE IF res.kind = "returns"
    THEN [kind |-> "ok", value |-> res.value, resolver_called |-> TRUE]
    ELSE [kind |-> res.error, value |-> <<>>, resolver_called |-> TRUE]

\* Themer.current_theme
current_theme(stk, res) ==
    IF stk # <<>>
    THEN [kind |-> "ok", value |-> Last(stk), resolver_called |-> FALSE]
    ELSE IF res.kind = "none"
    THEN [kind |-> "NoThemeResolver", value |-> <<>>, resolver_called |-> FALSE]
    ELSE IF res.kind = "returns"
    THEN [kind |-> "ok", value |-> res.value, resolver_called |-> TRUE]
    ELSE [kind |-> res.error, value |-> <<>>, resolver_called |-> TRUE]

\* lookup_theme_path as it would be if _current_themer did not turn the
\* KeyError into ThemerNotInitialized.
lookup_theme_path_keyerror(path) ==
    IF ~attached
    THEN [kind |-> "KeyError", value |-> <<>>]
    ELSE LET ct == current_theme(stack, resolver)
         IN  IF ct.kind # "ok"
             THEN [kind |-> ct.kind, value |-> <<>>]
             ELSE [kind |-> "ok",
                   value |-> MAGIC_PATH_PREFIX \o <<SEP>> \o ct.value \o <<SEP>> \o path]

\* lookup_theme_path: _current_themer(), then the f-string
lookup_theme_path(path) ==
    IF ~attached
    THEN [kind |-> "ThemerNotInitialized", value |-> <<>>]
    ELSE LET ct == current_theme(stack, resolver)
         IN  IF ct.kind # "ok"
             THEN [kind |-> ct.kind, value |-> <<>>]
             ELSE [kind |-> "ok",
                   value |-> MAGIC_PATH_PREFIX \o <<SEP>> \o ct.value \o <<SEP>> \o path]

\* lookup_static_theme_path: _current_themer(), then url_for of the static
\* endpoint of the blueprint with theme=themer.current_theme, filename=path.
lookup_static_theme_path(path) ==
    IF ~attached
    THEN [kind |-> "ThemerNotInitialized", theme |-> <<>>, filename |-> <<>>]
    ELSE LET ct == current_theme(stack, resolver)
         IN  IF ct.kind # "ok"
             THEN [kind |-> ct.kind, theme |-> <<>>, filename |-> <<>>]
             ELSE [kind |-> "ok", theme |-> ct.value, filename |-> path]

(***************************************************************************)
(* Template lookup and rendering.                                          *)
(***************************************************************************)
NoTemplate == [root |-> "", dir |-> <<>>, path |-> <<>>, body |-> ""]

\* The template a broken themed template extends; it exists in no source.
MissingBase == <<"m">>

\* raise TemplateNotFound(name)
TemplateNotFound(name) ==
    [kind |-> "TemplateNotFound", template |-> NoTemplate, missing |-> name]

Found(t) == [kind |-> "ok", template |-> t, missing |-> <<>>]

\* jinja2 FileSystemLoader(str(child)).get_source(environment, path)
JinjaGetSource(jl, path) ==
    IF \E f \in ThemeFiles(jl.root, jl.dir) : f.path = path
    THEN Found([root |-> jl.root, dir |-> jl.dir, path |-> path,
                body |-> (CHOOSE f \in ThemeFiles(jl.root, jl.dir) : f.path = path).body])
    ELSE TemplateNotFound(path)

\* The application's own jinja loader, on its template folder.
AppGetSource(path) ==
    IF \E f \in DefaultFiles : f.path = path
    THEN Found([root |-> "app", dir |-> <<>>, path |-> path,
                body |-> (CHOOSE f \in DefaultFiles : f.path = path).body])
    ELSE TemplateNotFound(path)

\* The outcome of a loader query with what it consulted on the way.
\* registry: themer.themes was consulted; source: a theme's jinja_loader was.
Consulted(r, registry, source) ==
    [kind |-> r.kind, template |-> r.template, missing |-> r.missing,
     registry |-> registry, source |-> source]

\* get_source as it would be without the except ValueError clause.
get_source_uncaught(template) ==
    IF ~StartsWith(template, MAGIC_PATH_PREFIX)
    THEN Consulted(TemplateNotFound(template), FALSE, FALSE)
    ELSE LET parts == Split1(SliceFrom(template, Len(MAGIC_PATH_PREFIX) + 1))
         IN  IF Len(parts) # 2
             THEN [kind |-> "ValueError", template |-> NoTemplate,
                   missing |-> <<>>, registry |-> FALSE, source |-> FALSE]
             ELSE IF ~attached
             THEN [kind |-> "ThemerNotInitialized", template |-> NoTemplate,
                   missing |-> <<>>, registry |-> FALSE, source |-> FALSE]
             ELSE IF parts[1] \in DOMAIN themes
             THEN Consulted(JinjaGetSource(themes[parts[1]].jinja_loader, parts[2]),
                            TRUE, TRUE)
             ELSE Consulted(TemplateNotFound(template), TRUE, FALSE)

\* _ThemeTemplateLoader.get_source
get_source(template) ==
    IF ~StartsWith(template, MAGIC_PATH_PREFIX)
    THEN Consulted(TemplateNotFound(template), FALSE, FALSE)
    ELSE LET parts == Split1(SliceFrom(template, Len(MAGIC_PATH_PREFIX) + 1))
         IN  IF Len(parts) # 2
             THEN Consulted(TemplateNotFound(template), FALSE, FALSE)
             ELSE IF ~attached
             THEN [kind |-> "ThemerNotInitialized", template |-> NoTemplate,
                   missing |-> <<>>, registry |-> FALSE, source |-> FALSE]
             ELSE IF parts[1] \in DOMAIN themes
             THEN Consulted(JinjaGetSource(themes[parts[1]].jinja_loader, parts[2]),
                            TRUE, TRUE)
             ELSE Consulted(TemplateNotFound(template), TRUE, FALSE)

\* Rendering a template that was found.  stage: where the outcome arose.
Render(t) ==
    CASE t.body = "ok" ->
            [kind |-> "ok", template |-> t, missing |-> <<>>, stage |-> "render"]
      [] t.body = "extends_missing" ->
            [kind |-> "TemplateNotFound", template |-> NoTemplate,
             missing |-> MissingBase, stage |-> "render"]
      [] OTHER ->
            [kind |-> "TemplateError", template |-> NoTemplate,
             missing |-> <<>>, stage |-> "render"]

\* flask.render_template: the application's loader first, then the loaders of
\* the registered blueprints (theme_blueprint is registered by init_app); a
\* loader's TemplateNotFound moves on to the next loader.
flask_render_template(name) ==
    IF AppGetSource(name).kind = "ok"
    THEN Render(AppGetSource(name).template)
    ELSE IF attached /\ get_source(name).kind = "ok"
    THEN Render(get_source(name).template)
    ELSE [kind |-> "TemplateNotFound", template |-> NoTemplate,
          missing |-> name, stage |-> "lookup"]

\* render_template.  first: the outcome of the themed attempt; fallbacks: how
\* many times the untagged path was rendered.
render_template(path) ==
    LET sp    == lookup_theme_path(path)
        first == IF sp.kind # "ok"
                 THEN [kind |-> sp.kind, template |-> NoTemplate,
                       missing |-> <<>>, stage |-> "theme"]
                 ELSE flask_render_template(sp.value)
    IN  IF first.kind = "TemplateNotFound"
        THEN [kind |-> flask_render_template(path).kind,
              template |-> flask_render_template(path).template,
              missing |-> flask_render_template(path).missing,
              first |-> first, fallbacks |-> 1]
        ELSE [kind |-> first.kind, template |-> first.template,
              missing |-> first.missing,
              first |-> first, fallbacks |-> 0]

(***************************************************************************)
(* Static assets.                                                          *)
(***************************************************************************)
NoAsset == [root |-> "", theme |-> <<>>, filename |-> <<>>]

\* FileSystemThemeLoader.get_static: send_from_directory answers with the
\* file, or raises NotFound (a 404 response) when there is no such file
\* under the directory.
get_static(loader, theme, path) ==
    IF path \in StaticFiles(loader.path, theme)
    THEN [kind |-> "response", status |-> 200,
          body |-> [root |-> loader.path, theme |-> theme, filename |-> path],
          get_static |-> TRUE]
    ELSE [kind |-> "response", status |-> 404, body |-> NoAsset, get_static |-> TRUE]

\* serve_static as it would be if the asset were asked of the first
\* configured loader instead of the loader that created the theme.
serve_static_first_loader(theme, filename) ==
    IF ~attached
    THEN [kind |-> "ThemerNotInitialized", status |-> 0, body |-> NoAsset,
          get_static |-> FALSE]
    ELSE IF theme \notin DOMAIN themes
    THEN [kind |-> "response", status |-> 404, body |-> NoAsset, get_static |-> FALSE]
    ELSE get_static(loaders[1], theme, filename)

\* serve_static
serve_static(theme, filename) ==
    IF ~attached
    THEN [kind |-> "ThemerNotInitialized", status |-> 0, body |-> NoAsset,
          get_static |-> FALSE]
    ELSE IF theme \notin DOMAIN themes
    THEN [kind |-> "response", status |-> 404, body |-> NoAsset, get_static |-> FALSE]
    ELSE get_static(themes[theme].theme_loader, theme, filename)

(***************************************************************************)
(* Inputs.                                                                 *)
(***************************************************************************)
\* The requests (threads of control) served by the application.
Requests == {"r1", "r2"}

\* The loaders arguments tried.  None of the supplied loaders scans the
\* default directory.
LoaderArgs ==
    {NoLoaders,
     LoaderList(<<>>),
     LoaderList(<<FileSystemThemeLoader("data", None)>>),
     LoaderList(<<FileSystemThemeLoader("data", "no_underscore")>>),
     LoaderList(<<FileSystemThemeLoader("gone", None)>>),
     LoaderList(<<FileSystemThemeLoader("data", None), FileSystemThemeLoader("more", None)>>)}

\* The resolvers registered: "u" names no theme of any directory, "a/b" is a
\* name holding the separator.
Resolvers ==
    {Returns(<<"a">>), Returns(<<"b">>), Returns(<<"u">>), Returns(<<"a", "/", "b">>),
     Raises("ResolverError")}

\* The set-up of the application in the concurrent runs.
ConcurrentLoaderArgs == {LoaderList(<<FileSystemThemeLoader("data", None)>>)}

ConcurrentResolvers == {Returns(<<"u">>)}

\* The themes given to use_theme.
UseThemes == {<<"a">>, <<"b">>}

\* What the body of a use_theme scope ends with.
BodyExits == {"none", "ValueError"}

\* The paths given to render_template.
RenderPaths ==
    {<<"t">>, <<"f">>, <<"k">>, <<"e">>, <<"g">>, <<"n">>,
     MAGIC_PATH_PREFIX \o <<SEP>>,
     MAGIC_PATH_PREFIX \o <<SEP, "b", SEP, "t">>}

\* The names given to the intercepting loader directly.
RawPaths ==
    {MAGIC_PATH_PREFIX,
     MAGIC_PATH_PREFIX \o <<SEP>>,
     MAGIC_PATH_PREFIX \o <<SEP, "a">>,
     MAGIC_PATH_PREFIX \o <<"x", "a">>,
     MAGIC_PATH_PREFIX \o <<SEP, "a", SEP, "t">>,
     MAGIC_PATH_PREFIX \o <<SEP, "a", SEP, "n">>,
     MAGIC_PATH_PREFIX \o <<SEP, "a", SEP, "b", SEP, "f">>,
     MAGIC_PATH_PREFIX \o <<SEP, "u", SEP, "t">>,
     MAGIC_PATH_PREFIX \o <<"x", "a", SEP, "t">>,
     <<"t">>,
     <<"x">> \o MAGIC_PATH_PREFIX \o <<SEP, "a", SEP, "t">>}

\* The themes and file names asked of the static route.
StaticThemes == {<<"a">>, <<"b">>, <<"u">>}

StaticNames == {<<"s">>, <<"y">>, <<"d", "/", "s">>, <<".", ".", "/", "t">>}

\* The loaders whose themes are enumerated directly.
LoaderInputs ==
    {FileSystemThemeLoader("data", None),
     FileSystemThemeLoader("data", "no_underscore"),
     FileSystemThemeLoader("themes", None),
     FileSystemThemeLoader("gone", None)}

(***************************************************************************)
(* The state machine.                                                      *)
(***************************************************************************)
\* Themer(): nothing attached to the application yet.
Init ==
    /\ attached = FALSE
    /\ loaders = <<>>
    /\ themes = EmptyThemes
    /\ resolver = NoResolver
    /\ stack = <<>>
    /\ owner = <<>>
    /\ scopes = [r \in Requests |-> <<>>]
    /\ last = [op |-> "Themer"]

\* Themer.init_app (also the tail of Themer(app, loaders=...)).  There is one
\* application and it is initialised once: theme_blueprint is registered on
\* it by the call (line 119).
init_app(arg) ==
    /\ ~attached
    /\ attached' = TRUE
    /\ loaders' = EffectiveLoaders(arg)
    /\ themes' = RegisterAll(themes, EffectiveLoaders(arg))
    /\ last' = [op |-> "init_app", arg |-> arg]
    /\ UNCHANGED <<resolver, stack, owner, scopes>>

\* Themer.current_theme_loader
current_theme_loader(res) ==
    /\ resolver' = res
    /\ last' = [op |-> "current_theme_loader", arg |-> res]
    /\ UNCHANGED <<attached, loaders, themes, stack, owner, scopes>>

\* use_theme's push as it would be with insert(0, theme).
use_theme_prepend(stk, theme) == <<theme>> \o stk

\* The stack after use_theme's append.
use_theme_append(stk, theme) == Append(stk, theme)

\* use_theme's exit as it would be without try/finally: the pop is skipped
\* when the body raises.
use_theme_finally_no_unwind(stk, exc) ==
    IF stk = <<>> \/ exc # "none" THEN stk ELSE Front(stk)

\* The stack after use_theme's finally clause; list.pop() of an empty list
\* raises IndexError and leaves it empty.
use_theme_finally(stk, exc) == IF stk = <<>> THEN stk ELSE Front(stk)

\* Entering `with use_theme(theme)`: _current_themer(), then the append.
use_theme_enter(r, theme) ==
    /\ Len(stack) < MaxOpen
    /\ IF attached
       THEN /\ stack' = use_theme_append(stack, theme)
            /\ owner' = Append(owner, r)
            /\ scopes' = [scopes EXCEPT ![r] = Append(@, [theme |-> theme, before |-> stack])]
            /\ last' = [op |-> "use_theme", request |-> r, theme |-> theme, raised |-> "none"]
       ELSE /\ last' = [op |-> "use_theme", request |-> r, theme |-> theme,
                        raised |-> "ThemerNotInitialized"]
            /\ UNCHANGED <<stack, owner, scopes>>
    /\ UNCHANGED <<attached, loaders, themes, resolver>>

\* Leaving the innermost scope of request r, its body ending normally or by
\* raising exc: the finally clause pops, then exc (if any) propagates.
use_theme_exit(r, exc) ==
    /\ scopes[r] # <<>>
    /\ stack' = use_theme_finally(stack, exc)
    /\ owner' = SubSeq(owner, 1, Len(use_theme_finally(stack, exc)))
    /\ scopes' = [scopes EXCEPT ![r] = Front(@)]
    /\ last' = [op |-> "use_theme_exit", request |-> r, scope |-> Last(scopes[r]),
                body |-> exc,
                raised |-> IF stack = <<>> THEN "IndexError" ELSE exc,
                pops |-> Len(stack) - Len(use_theme_finally(stack, exc)),
                popped_owner |-> IF owner = <<>> THEN "nobody" ELSE Last(owner)]
    /\ UNCHANGED <<attached, loaders, themes, resolver>>

\* Request r reads themer.current_theme.
read_current_theme(r) ==
    /\ last' = [op |-> "current_theme", request |-> r,
                result |-> current_theme(stack, resolver)]
    /\ UNCHANGED <<attached, loaders, themes, resolver, stack, owner, scopes>>

\* Request r calls render_template(path).
call_render_template(r, path) ==
    /\ last' = [op |-> "render_template", request |-> r, path |-> path,
                result |-> render_template(path)]
    /\ UNCHANGED <<attached, loaders, themes, resolver, stack, owner, scopes>>

\* The template engine queries the intercepting loader for a name.
call_get_source(raw) ==
    /\ last' = [op |-> "get_source", template |-> raw, result |-> get_source(raw)]
    /\ UNCHANGED <<attached, loaders, themes, resolver, stack, owner, scopes>>

\* Request r calls lookup_theme_path(path) (theme() in a template).
call_lookup_theme_path(r, path) ==
    /\ last' = [op |-> "lookup_theme_path", request |-> r, path |-> path,
                result |-> lookup_theme_path(path)]
    /\ UNCHANGED <<attached, loaders, themes, resolver, stack, owner, scopes>>

\* Request r calls lookup_static_theme_path(path) (theme_static() in a template).
call_lookup_static_theme_path(r, path) ==
    /\ last' = [op |-> "lookup_static_theme_path", request |-> r, path |-> path,
                result |-> lookup_static_theme_path(path)]
    /\ UNCHANGED <<attached, loaders, themes, resolver, stack, owner, scopes>>

\* The static handler is called for /_theme/<theme>/<path:filename>.
call_serve_static(theme, filename) ==
    /\ last' = [op |-> "serve_static", theme |-> theme, filename |-> filename,
                result |-> serve_static(theme, filename)]
    /\ UNCHANGED <<attached, loaders, themes, resolver, stack, owner, scopes>>

\* The themes property of a loader is read and gone through.
call_themes(loader) ==
    /\ last' = [op |-> "themes", loader |-> loader,
                result |-> FileSystemThemeLoader_themes(loader)]
    /\ UNCHANGED <<attached, loaders, themes, resolver, stack, owner, scopes>>

\* The use_theme scopes and current_theme reads of one request.
ScopeStep(r) ==
    \/ \E theme \in UseThemes : use_theme_enter(r, theme)
    \/ \E exc \in BodyExits : use_theme_exit(r, exc)
    \/ read_current_theme(r)

\* The steps that belong to no request in particular.
AppStep ==
    \/ \E arg \in LoaderArgs : init_app(arg)
    \/ \E res \in Resolvers : current_theme_loader(res)
    \/ \E raw \in RawPaths : call_get_source(raw)

\* One thread of control: request r1 does everything.
Next ==
    \/ AppStep
    \/ ScopeStep("r1")
    \/ \E path \in RenderPaths : call_render_template("r1", path)
    \/ \E path \in RenderPaths : call_lookup_theme_path("r1", path)
    \/ \E path \in StaticNames : call_lookup_static_theme_path("r1", path)
    \/ \E theme \in StaticThemes, filename \in StaticNames : call_serve_static(theme, filename)
    \/ \E loader \in LoaderInputs : call_themes(loader)

Spec == Init /\ [][Next]_vars

\* Two requests served concurrently by the same application: their
\* use_theme scopes and current_theme reads interleave step by step.
ConcurrentAppStep ==
    \/ \E arg \in ConcurrentLoaderArgs : init_app(arg)
    \/ \E res \in ConcurrentResolvers : current_theme_loader(res)

NextConcurrent == ConcurrentAppStep \/ \E r \in Requests : ScopeStep(r)

SpecConcurrent == Init /\ [][NextConcurrent]_vars

(***************************************************************************)
(* Properties.                                                             *)
(***************************************************************************)
\* The paths a set of stored templates holds.
PathsOf(files) == {f.path : f \in files}

\* The templates of a registered theme.
FilesOfTheme(name) == ThemeFiles(themes[name].jinja_loader.root, themes[name].jinja_loader.dir)

\* C1: current_theme returns the top (last pushed) entry of the override
\* stack whenever the stack is non-empty, without calling the resolver (and
\* whether or not one is registered); with an empty stack it returns exactly
\* what the registered resolver produces.
C1_CurrentThemePriority ==
    last.op = "current_theme" =>
        /\ stack # <<>> =>
              /\ last.result.kind = "ok"
              /\ last.result.value = stack[Len(stack)]
              /\ ~last.result.resolver_called
        /\ (stack = <<>> /\ resolver.kind = "returns") =>
              /\ last.result.kind = "ok"
              /\ last.result.value = resolver.value
              /\ last.result.resolver_called
        /\ (stack = <<>> /\ resolver.kind = "raises") =>
              last.result.kind = resolver.error

\* C1 witness: a read with two overrides open while a resolver naming another
\* theme is registered.
C1_Witness ==
    /\ last.op = "current_theme"
    /\ Len(stack) = 2
    /\ resolver.kind = "returns"
    /\ resolver.value # stack[Len(stack)]
    /\ stack[1] # stack[2]

\* C2: in one thread of control the stack is exactly the themes of the open
\* scopes, outermost first (so its depth is the number of open scopes and a
\* read inside a scope gives the innermost scope's theme); every exit pops
\* once, never from an empty stack, and leaves the stack as it was just
\* before that scope was entered.
C2_ProperNesting ==
    /\ Len(stack) = Len(scopes["r1"])
    /\ \A i \in 1..Len(scopes["r1"]) :
          /\ stack[i] = scopes["r1"][i].theme
          /\ scopes["r1"][i].before = SubSeq(stack, 1, i - 1)
    /\ (last.op = "current_theme" /\ scopes["r1"] # <<>>) =>
          /\ last.result.kind = "ok"
          /\ last.result.value = scopes["r1"][Len(scopes["r1"])].theme
    /\ last.op = "use_theme_exit" =>
          /\ stack = last.scope.before
          /\ last.pops = 1
          /\ last.raised # "IndexError"

\* C2 witness: enter a, enter b, exit b: the stack is back to <<a>>.
C2_Witness ==
    /\ last.op = "use_theme_exit"
    /\ last.scope.theme = <<"b">>
    /\ last.scope.before = <<<<"a">>>>
    /\ stack = <<<<"a">>>>

\* C3: when the body of a use_theme scope raises, the scope's entry is popped
\* exactly once, the exception reaches the caller, and the stack is as deep as
\* before the scope was entered (empty when no outer scope is open).
C3_UnwindOnException ==
    (last.op = "use_theme_exit" /\ last.body # "none") =>
        /\ last.pops = 1
        /\ last.raised = last.body
        /\ Len(stack) = Len(last.scope.before)
        /\ stack = last.scope.before
        /\ scopes["r1"] = <<>> => stack = <<>>

\* C3 witness: a nested scope left by an exception.
C3_Witness ==
    /\ last.op = "use_theme_exit"
    /\ last.body = "ValueError"
    /\ Len(last.scope.before) = 1
    /\ last.raised = "ValueError"

\* C4: with two requests running concurrently, the theme a request reads from
\* the override stack is one it pushed itself, and every scope exit removes an
\* entry pushed by the exiting request.
C4_RequestIsolation ==
    /\ (last.op = "current_theme" /\ stack # <<>>) =>
          /\ owner[Len(owner)] = last.request
          /\ scopes[last.request] # <<>>
          /\ last.result.value = scopes[last.request][Len(scopes[last.request])].theme
    /\ last.op = "use_theme_exit" => last.popped_owner = last.request

\* The active theme provides no template for p: its name is no key of the
\* registry, or the registered theme's source lacks p.
ActiveThemeLacks(name, p) ==
    \/ name \notin DOMAIN themes
    \/ p \notin PathsOf(FilesOfTheme(name))

\* C5: for a path the active theme does not provide and the default source
\* holds, render_template gives what rendering the default source's template
\* gives, after exactly one fallback that follows a not-found of the
\* sentinel lookup.
C5_FallbackToDefault ==
    (/\ last.op = "render_template"
     /\ attached
     /\ current_theme(stack, resolver).kind = "ok"
     /\ ActiveThemeLacks(current_theme(stack, resolver).value, last.path)
     /\ last.path \in PathsOf(DefaultFiles)) =>
        /\ last.result.fallbacks = 1
        /\ last.result.first.kind = "TemplateNotFound"
        /\ last.result.first.stage = "lookup"
        /\ \E f \in DefaultFiles :
              /\ f.path = last.path
              /\ f.body = "ok" =>
                    /\ last.result.kind = "ok"
                    /\ last.result.template.root = "app"
                    /\ last.result.template.path = last.path
              /\ f.body # "ok" => last.result.kind = "TemplateError"

\* C6: for a registered theme T that is current and a path present in T's
\* source and absent from the default source, render_template gives what
\* rendering T's template gives and renders no fallback.
C6_ThemedRender ==
    (/\ last.op = "render_template"
     /\ attached
     /\ current_theme(stack, resolver).kind = "ok"
     /\ current_theme(stack, resolver).value \in DOMAIN themes
     /\ last.path \in PathsOf(FilesOfTheme(current_theme(stack, resolver).value))
     /\ last.path \notin PathsOf(DefaultFiles)) =>
        LET T == current_theme(stack, resolver).value
            f == CHOOSE g \in FilesOfTheme(T) : g.path = last.path
        IN  /\ last.result.fallbacks = 0
            /\ f.body = "ok" =>
                  /\ last.result.kind = "ok"
                  /\ last.result.template.dir = T
                  /\ last.result.template.root = themes[T].jinja_loader.root
                  /\ last.result.template.path = last.path
            /\ f.body = "extends_missing" =>
                  /\ last.result.kind = "TemplateNotFound"
                  /\ last.result.missing = MissingBase
            /\ f.body = "raises" => last.result.kind = "TemplateError"

\* C7: render_template renders the untagged path only when the lookup of the
\* sentinel path reported not-found; any other failure of the first attempt
\* reaches the caller as it is, with no second render.
C7_RetryOnlyOnLookupNotFound ==
    last.op = "render_template" =>
        /\ last.result.fallbacks = 1 =>
              /\ last.result.first.kind = "TemplateNotFound"
              /\ last.result.first.stage = "lookup"
        /\ (last.result.first.kind # "ok" /\ last.result.first.stage # "lookup") =>
              /\ last.result.fallbacks = 0
              /\ last.result.kind = last.result.first.kind
              /\ last.result.missing = last.result.first.missing

\* C8: get_source (of an attached Themer) fails with TemplateNotFound,
\* consulting neither the registry nor a theme's source, for every name that
\* does not start with the magic prefix followed by '/'.
C8_PrefixAndSeparatorRequired ==
    (/\ last.op = "get_source"
     /\ attached
     /\ ~StartsWith(last.template, MAGIC_PATH_PREFIX \o <<SEP>>)) =>
        /\ last.result.kind = "TemplateNotFound"
        /\ ~last.result.registry
        /\ ~last.result.source

\* C9: for a name that starts with the magic prefix and holds no '/' after
\* the character that follows the prefix, get_source fails with
\* TemplateNotFound (attached or not); and render_template of prefix + '/',
\* with a current theme at hand, fails with TemplateNotFound.
C9_MalformedSentinelNotFound ==
    /\ (/\ last.op = "get_source"
         /\ StartsWith(last.template, MAGIC_PATH_PREFIX)
         /\ \A i \in (Len(MAGIC_PATH_PREFIX) + 2)..Len(last.template) :
               last.template[i] # SEP) =>
            /\ last.result.kind = "TemplateNotFound"
            /\ last.result.missing = last.template
    /\ (/\ last.op = "render_template"
         /\ last.path = MAGIC_PATH_PREFIX \o <<SEP>>
         /\ attached
         /\ current_theme(stack, resolver).kind = "ok") =>
            last.result.kind = "TemplateNotFound"

\* C9 witness: the loader is asked for prefix + '/' + a registered theme's
\* name, with nothing after it.
C9_Witness ==
    /\ last.op = "get_source"
    /\ last.template = MAGIC_PATH_PREFIX \o <<SEP, "a">>
    /\ attached
    /\ <<"a">> \in DOMAIN themes
    /\ last.result.kind = "TemplateNotFound"

\* C10: whenever a list of loaders is supplied, of any length, the loaders
\* used are exactly the supplied ones, the registry holds only their themes
\* and the default directory is not scanned; it is scanned only when no list
\* is supplied.
C10_SuppliedLoadersReplaceDefault ==
    last.op = "init_app" =>
        /\ last.arg.supplied =>
              /\ loaders = last.arg.list
              /\ \A i \in 1..Len(loaders) : loaders[i].path # DefaultDirectory
              /\ \A n \in DOMAIN themes :
                    \E i \in 1..Len(last.arg.list) :
                        themes[n].theme_loader = last.arg.list[i]
        /\ ~last.arg.supplied =>
              loaders = <<FileSystemThemeLoader(DefaultDirectory, None)>>

\* The names of the child directories of a loader's root that its filter
\* keeps.
EnumeratedNames(loader) ==
    IF DirExists(loader.path)
    THEN {c.name : c \in {e \in DirEntries(loader.path) :
                            /\ e.is_dir
                            /\ loader.filter = "no_underscore" => e.name[1] # "_"}}
    ELSE {}

\* The last of the configured loaders that enumerates name.
LastLoaderOf(name) ==
    loaders[CHOOSE i \in 1..Len(loaders) :
               /\ name \in EnumeratedNames(loaders[i])
               /\ \A j \in (i + 1)..Len(loaders) : name \notin EnumeratedNames(loaders[j])]

\* C11: with an empty override stack and no resolver registered,
\* current_theme fails with NoThemeResolver, and so do lookup_theme_path,
\* lookup_static_theme_path and render_template of an attached Themer (with
\* no fallback render); with a resolver registered the same calls get the
\* resolver's value.
C11_NoThemeResolver ==
    /\ (stack = <<>> /\ resolver.kind = "none") =>
          /\ last.op = "current_theme" => last.result.kind = "NoThemeResolver"
          /\ (attached /\ last.op \in {"lookup_theme_path", "lookup_static_theme_path",
                                         "render_template"}) =>
                last.result.kind = "NoThemeResolver"
          /\ (attached /\ last.op = "render_template") => last.result.fallbacks = 0
    /\ (stack = <<>> /\ resolver.kind = "returns") =>
          /\ last.op = "current_theme" =>
                last.result.kind = "ok" /\ last.result.value = resolver.value
          /\ (attached /\ last.op = "lookup_theme_path") =>
                /\ last.result.kind = "ok"
                /\ last.result.value =
                      MAGIC_PATH_PREFIX \o <<SEP>> \o resolver.value \o <<SEP>> \o last.path
          /\ (attached /\ last.op = "lookup_static_theme_path") =>
                /\ last.result.kind = "ok"
                /\ last.result.theme = resolver.value
                /\ last.result.filename = last.path
          /\ (attached /\ last.op = "render_template") =>
                last.result.kind \in {"ok", "TemplateNotFound", "TemplateError"}

\* C11 witness: render_template raises NoThemeResolver on an attached Themer
\* that has no resolver and no override.
C11_Witness ==
    /\ last.op = "render_template"
    /\ attached
    /\ stack = <<>>
    /\ resolver.kind = "none"
    /\ last.result.kind = "NoThemeResolver"

\* A name get_source parses into a theme and a path: it starts with the
\* magic prefix and holds a '/' after the character that follows the prefix.
Parses(template) ==
    /\ StartsWith(template, MAGIC_PATH_PREFIX)
    /\ \E i \in (Len(MAGIC_PATH_PREFIX) + 2)..Len(template) : template[i] = SEP

\* What every operation but get_source does when no Themer is attached.
FailsNotInitialized ==
    /\ last.op \in {"render_template", "lookup_theme_path", "lookup_static_theme_path",
                    "serve_static"} =>
          last.result.kind = "ThemerNotInitialized"
    /\ last.op = "use_theme" =>
          /\ last.raised = "ThemerNotInitialized"
          /\ stack = <<>>
          /\ owner = <<>>
          /\ scopes[last.request] = <<>>

\* C12 as stated: with no Themer attached every resolution call fails with
\* ThemerNotInitialized, for every argument, get_source included.
C12_NotInitializedEveryCall ==
    ~attached =>
        /\ FailsNotInitialized
        /\ last.op = "get_source" => last.result.kind = "ThemerNotInitialized"

\* C12 amended: with no Themer attached, render_template, lookup_theme_path,
\* lookup_static_theme_path, serve_static and use_theme (which pushes
\* nothing) fail with ThemerNotInitialized for every argument; get_source
\* does so for the names it parses into a theme and a path, and fails with
\* TemplateNotFound for every other name.
C12_NotInitialized ==
    ~attached =>
        /\ FailsNotInitialized
        /\ (last.op = "get_source" /\ Parses(last.template)) =>
              last.result.kind = "ThemerNotInitialized"
        /\ (last.op = "get_source" /\ ~Parses(last.template)) =>
              last.result.kind = "TemplateNotFound"

\* C12 witness: the loader is asked for a well-formed sentinel while no
\* Themer is attached.
C12_Witness ==
    /\ ~attached
    /\ last.op = "get_source"
    /\ last.template = MAGIC_PATH_PREFIX \o <<SEP, "a", SEP, "t">>
    /\ last.result.kind = "ThemerNotInitialized"

\* The theme names and relative paths of the well-formed sentinels.
SentinelThemes == {<<"a">>, <<"b">>, <<"u">>, <<"_", "c">>}

SentinelPaths == {<<"t">>, <<"n">>, <<"k">>, <<"b", SEP, "f">>}

\* C13: for a well-formed sentinel prefix/theme/rel given to an attached
\* Themer's loader: an unregistered theme gives TemplateNotFound; a
\* registered one gives the template its source holds at rel (everything
\* after the '/' that follows the theme name), or the source's own not-found
\* for rel.
C13_DelegatesToThemeSource ==
    (last.op = "get_source" /\ attached) =>
        \A T \in SentinelThemes, rel \in SentinelPaths :
            last.template = MAGIC_PATH_PREFIX \o <<SEP>> \o T \o <<SEP>> \o rel =>
                IF T \notin DOMAIN themes
                THEN last.result.kind = "TemplateNotFound"
                ELSE IF rel \in PathsOf(FilesOfTheme(T))
                THEN /\ last.result.kind = "ok"
                     /\ last.result.template.root = themes[T].jinja_loader.root
                     /\ last.result.template.dir = T
                     /\ last.result.template.path = rel
                ELSE /\ last.result.kind = "TemplateNotFound"
                     /\ last.result.missing = rel

\* C13 witness: a sentinel whose relative path holds a separator is found in
\* the registered theme.
C13_Witness ==
    /\ last.op = "get_source"
    /\ attached
    /\ last.template = MAGIC_PATH_PREFIX \o <<SEP, "a", SEP, "b", SEP, "f">>
    /\ last.result.kind = "ok"
    /\ last.result.template.path = <<"b", SEP, "f">>

\* C14: the loader's parse (strip the prefix and one character, split at the
\* first '/') of the string lookup_theme_path builds gives back the current
\* theme name and the path.
C14_SentinelRoundTrip ==
    (last.op = "lookup_theme_path" /\ last.result.kind = "ok") =>
        Split1(SliceFrom(last.result.value, Len(MAGIC_PATH_PREFIX) + 1)) =
            <<current_theme(stack, resolver).value, last.path>>

\* C15: the static handler of an attached Themer answers 404 without calling
\* get_static for an unregistered theme, 404 for a registered theme without
\* the asset, and otherwise 200 with the asset of the loader that created
\* the registered theme; it always answers with a response.
C15_StaticRouting ==
    (last.op = "serve_static" /\ attached) =>
        /\ last.result.kind = "response"
        /\ last.theme \notin DOMAIN themes =>
              last.result.status = 404 /\ ~last.result.get_static
        /\ last.theme \in DOMAIN themes =>
              /\ last.result.get_static
              /\ IF last.filename \in
                       StaticFiles(themes[last.theme].jinja_loader.root, last.theme)
                 THEN /\ last.result.status = 200
                      /\ last.result.body =
                            [root |-> themes[last.theme].jinja_loader.root,
                             theme |-> last.theme, filename |-> last.filename]
                 ELSE last.result.status = 404

\* C15 witness: an asset of a theme created by the second of two loaders is
\* served.
C15_Witness ==
    /\ last.op = "serve_static"
    /\ Len(loaders) = 2
    /\ last.theme = <<"b">>
    /\ last.result.status = 200
    /\ last.result.body.root = "more"

\* C16: for a path absent from both the active theme and the default source,
\* render_template fails with the TemplateNotFound of its one fallback
\* render.
C16_NotFoundInBoth ==
    (/\ last.op = "render_template"
     /\ attached
     /\ current_theme(stack, resolver).kind = "ok"
     /\ ActiveThemeLacks(current_theme(stack, resolver).value, last.path)
     /\ last.path \notin PathsOf(DefaultFiles)) =>
        /\ last.result.kind = "TemplateNotFound"
        /\ last.result.missing = last.path
        /\ last.result.fallbacks = 1
        /\ last.result.first.kind = "TemplateNotFound"

C18_FileSystemThemes ==
    last.op = "themes" =>
        /\ {last.result[i].name : i \in 1..Len(last.result)} = EnumeratedNames(last.loader)
        /\ \A i, j \in 1..Len(last.result) :
              last.result[i].name = last.result[j].name => i = j
        /\ \A i \in 1..Len(last.result) :
              /\ last.result[i].theme_loader = last.loader
              /\ last.result[i].jinja_loader =
                    [root |-> last.loader.path, dir |-> last.result[i].name]
        /\ ~DirExists(last.loader.path) => last.result = <<>>

\* C18 witness: a filtered loader on a root holding two kept directories, a
\* rejected one and a file.
C18_Witness ==
    /\ last.op = "themes"
    /\ last.loader = FileSystemThemeLoader("data", "no_underscore")
    /\ Len(last.result) = 2

\* C19: under every interleaving of the scopes of two requests the stack is
\* as deep as the number of scopes open over all requests, every exit pops
\* once and never from an empty stack, and the stack is empty once every
\* scope is closed.
C19_ConcurrentBalance ==
    /\ Len(stack) = Len(scopes["r1"]) + Len(scopes["r2"])
    /\ Len(owner) = Len(stack)
    /\ last.op = "use_theme_exit" =>
          last.pops = 1 /\ last.raised = last.body
    /\ (\A r \in Requests : scopes[r] = <<>>) => stack = <<>>

\* C19 witness: the last open scope is closed by a request whose own entry
\* was popped earlier by the other request.
C19_Witness ==
    /\ last.op = "use_theme_exit"
    /\ last.request = "r2"
    /\ last.popped_owner = "r1"
    /\ last.body = "ValueError"
    /\ \A r \in Requests : scopes[r] = <<>>
    /\ stack = <<>>

\* C20: what render_template returns comes from the current theme's source
\* or from the default source, never from the source of another registered
\* theme.
C20_NoOtherThemeContent ==
    (/\ last.op = "render_template"
     /\ last.result.kind = "ok"
     /\ current_theme(stack, resolver).kind = "ok") =>
        \/ last.result.template.root = "app"
        \/ last.result.template.dir = current_theme(stack, resolver).value

====
